---------------------------- MODULE Spec2Model ----------------------------
(***************************************************************************)
(* A model of codedust.py: the per-line rule evaluator inspect_line, the   *)
(* file scanner inspect_file with its OFF/ON/SKIP directives, and the main *)
(* loop that prints and counts the violations and sets the exit code.      *)
(*                                                                         *)
(* A line is a sequence of one-character strings, as Python's readlines()  *)
(* returns it: the line-break "\n", when present, is the last character.   *)
(***************************************************************************)
EXTENDS Integers, Sequences, FiniteSets, TLC

(***************************************************************************)
(* Python values.                                                          *)
(***************************************************************************)
\* Python's None where a line is expected (prev_line / next_line absent).
None == <<"None">>

\* A setting of the rule-set is an int, a str or None (dynamically typed).
IntV(n) == [t |-> "int", i |-> n, s |-> <<>>]
StrV(str) == [t |-> "str", i |-> 0, s |-> str]
NoneV == [t |-> "none", i |-> 0, s |-> <<>>]

\* Python's truth value of a setting (0, "" and None are falsy).
Truthy(v) ==
    CASE v.t = "int" -> v.i /= 0
      [] v.t = "str" -> v.s /= <<>>
      [] OTHER -> FALSE

(***************************************************************************)
(* Characters and string functions.                                        *)
(***************************************************************************)
NL == "\n"
TAB == "\t"
Whitespace == {" ", TAB, NL}
LowerCase == {"a", "b", "c", "d", "e", "f", "g", "h", "i", "j", "k", "l", "m",
              "n", "o", "p", "q", "r", "s", "t", "u", "v", "w", "x", "y", "z"}
UpperCase == {"A", "B", "C", "D", "E", "F", "G", "H", "I", "J", "K", "L", "M",
              "N", "O", "P", "Q", "R", "S", "T", "U", "V", "W", "X", "Y", "Z"}
Digits == {"0", "1", "2", "3", "4", "5", "6", "7", "8", "9"}
\* the regular expression class \w
WordChars == LowerCase \cup UpperCase \cup Digits \cup {"_"}
Quotes == {"\"", "'"}

RECURSIVE lstrip(_)
lstrip(str) ==
    IF str = <<>> THEN <<>>
    ELSE IF Head(str) \in Whitespace THEN lstrip(Tail(str)) ELSE str

RECURSIVE rstrip(_)
rstrip(str) ==
    IF str = <<>> THEN <<>>
    ELSE IF str[Len(str)] \in Whitespace THEN rstrip(SubSeq(str, 1, Len(str) - 1))
    ELSE str

strip(str) == rstrip(lstrip(str))

endswith(str, suffix) ==
    /\ Len(str) >= Len(suffix)
    /\ SubSeq(str, Len(str) - Len(suffix) + 1, Len(str)) = suffix

startswith(str, prefix) ==
    /\ Len(str) >= Len(prefix)
    /\ SubSeq(str, 1, Len(prefix)) = prefix

\* Python's "sub in str"
Contains(sub, str) ==
    \E k \in 1..(Len(str) - Len(sub) + 1) : SubSeq(str, k, k + Len(sub) - 1) = sub

\* re.search of a two-character pattern [first][second] anywhere in str
SearchPair(first, second, str) ==
    \E k \in 1..(Len(str) - 1) : str[k] \in first /\ str[k + 1] \in second

\* Python's a % b for a >= 0 and b /= 0 (the result takes the sign of b)
PyMod(a, b) ==
    IF b > 0 THEN a % b
    ELSE IF a % (0 - b) = 0 THEN 0 ELSE (a % (0 - b)) + b

(***************************************************************************)
(* Line classification.                                                    *)
(***************************************************************************)
is_line_empty(line) == strip(line) = <<>>

RECURSIVE line_indent(_)
line_indent(line) ==
    IF line /= <<>> /\ Head(line) = " " THEN 1 + line_indent(Tail(line)) ELSE 0

\* re.search(r'(^\#+$)|(^\/+$)|(^\-+$)', line.strip())
SectionHeaderMatch(line) ==
    LET str == strip(line) IN
    /\ str /= <<>>
    /\ \E ch \in {"#", "/", "-"} : \A k \in 1..Len(str) : str[k] = ch

(***************************************************************************)
(* Rule-sets.                                                              *)
(***************************************************************************)
Codes ==
    <<"CD0101", "CD0102", "CD0103", "CD0104", "CD0105", "CD0106",
      "CD0201", "CD0202", "CD0203", "CD0204", "CD0205", "CD0206",
      "CD0207", "CD0208", "CD0209", "CD0210",
      "CD0301", "CD0302", "CD0303", "CD0401", "CD0402", "CD0501", "CD0502">>

CodeSet == {Codes[k] : k \in 1..Len(Codes)}

\* rules.get(code) != False: a code that is absent or mapped to True is on
RuleEnabled(rules, code) ==
    ~(code \in DOMAIN rules.toggles /\ rules.toggles[code] = FALSE)

\* Check without the test of the rule-code table
CheckUntoggled(rules, code, condition) ==
    IF condition THEN <<code>> ELSE <<>>

\* "if <condition>: if rules.get(code) != False: yield (code, message)"
Check(rules, code, condition) ==
    IF condition /\ RuleEnabled(rules, code) THEN <<code>> ELSE <<>>

(***************************************************************************)
(* inspect_line: the violations of one line, in the order they are         *)
(* yielded.  inspect_line is a generator: when an expression raises, the   *)
(* codes yielded before that point have already reached the caller, and    *)
(* "raised" tells that the iteration ended with an exception.              *)
(***************************************************************************)
Yielded(out) == [out |-> out, raised |-> FALSE]
Raised(out) == [out |-> out, raised |-> TRUE]

\* lines 110-120 with the line-break asked of lines with text only
FileEdgeChecksOfText(prev_line, curr_line, next_line, rules) ==
    Check(rules, "CD0101", is_line_empty(curr_line) /\ prev_line = None)
    \o Check(rules, "CD0102", is_line_empty(curr_line) /\ next_line = None)
    \o Check(rules, "CD0103",
             /\ ~is_line_empty(curr_line)
             /\ ~endswith(curr_line, <<NL>>)
             /\ next_line = None)

\* lines 110-120: the checks made whether or not prev_line is present
FileEdgeChecks(prev_line, curr_line, next_line, rules) ==
    Check(rules, "CD0101", is_line_empty(curr_line) /\ prev_line = None)
    \o Check(rules, "CD0102", is_line_empty(curr_line) /\ next_line = None)
    \o Check(rules, "CD0103", ~endswith(curr_line, <<NL>>) /\ next_line = None)

\* lines 123-129
EmptyLineChecks(prev_line, curr_line, rules) ==
    Check(rules, "CD0104", is_line_empty(prev_line) /\ is_line_empty(curr_line))
    \o Check(rules, "CD0105",
             /\ is_line_empty(curr_line)
             /\ strip(prev_line) /= <<>>
             /\ strip(prev_line)[Len(strip(prev_line))] \in {"{", "[", "(", "<"})

\* line 131: is_line_empty(curr_line) and re.search(..., next_line.strip())
\* evaluates None.strip() when the current line is empty and next_line is None
NextLineStripRaises(curr_line, next_line) ==
    is_line_empty(curr_line) /\ next_line = None

\* lines 131-133, reached only when next_line.strip() can be evaluated
BlockEndCheck(curr_line, next_line, rules) ==
    Check(rules, "CD0106",
          /\ is_line_empty(curr_line)
          /\ strip(next_line) /= <<>>
          /\ strip(next_line)[1] \in {"}", "]", ")", ">"})

\* lines 136-174
SpaceChecks(curr_line, rules) ==
    Check(rules, "CD0201", Contains(<<" ", " ">>, strip(curr_line)))
    \o Check(rules, "CD0202", endswith(curr_line, <<" ", NL>>))
    \o Check(rules, "CD0203", Contains(<<" ", ",">>, strip(curr_line)))
    \o Check(rules, "CD0204", Contains(<<" ", ";">>, strip(curr_line)))
    \o Check(rules, "CD0205", Contains(<<"(", " ">>, strip(curr_line)))
    \o Check(rules, "CD0206", Contains(<<" ", ")">>, strip(curr_line)))
    \o Check(rules, "CD0207", SearchPair({","}, WordChars \cup {"("}, curr_line))
    \o Check(rules, "CD0208", SearchPair({";"}, WordChars \cup {"("}, curr_line))
    \o Check(rules, "CD0209",
             /\ SearchPair(LowerCase \cup Digits \cup {")", "]", "}"} \cup Quotes,
                           {"="}, curr_line)
             /\ ~Contains(<<"=", "=", "=", "=">>, curr_line))
    \o Check(rules, "CD0210",
             /\ SearchPair({"="},
                           LowerCase \cup Digits \cup {"(", "[", "{"} \cup Quotes,
                           curr_line)
             /\ ~Contains(<<"=", "=", "=", "=">>, curr_line))

\* lines 179-181
TabCheck(curr_line, rules) == Check(rules, "CD0301", Contains(<<TAB>>, curr_line))

\* line 183: "line_indent(curr_line) % indent_size" raises ZeroDivisionError
\* for 0 and TypeError for a setting that is not an int
IndentModRaises(rules) ==
    rules.indent_size.t /= "int" \/ rules.indent_size.i = 0

\* lines 183-191 with the two checks in the other order
IndentChecksSwapped(prev_line, curr_line, rules) ==
    LET indent_size == rules.indent_size.i IN
    Check(rules, "CD0303",
          /\ ~is_line_empty(prev_line)
          /\ line_indent(curr_line) > line_indent(prev_line)
          /\ line_indent(curr_line) - line_indent(prev_line) > indent_size)
    \o Check(rules, "CD0302", PyMod(line_indent(curr_line), indent_size) /= 0)

\* lines 183-191, reached only with an int indent_size other than 0
IndentChecks(prev_line, curr_line, rules) ==
    LET indent_size == rules.indent_size.i IN
    Check(rules, "CD0302", PyMod(line_indent(curr_line), indent_size) /= 0)
    \o Check(rules, "CD0303",
             /\ ~is_line_empty(prev_line)
             /\ line_indent(curr_line) > line_indent(prev_line)
             /\ line_indent(curr_line) - line_indent(prev_line) > indent_size)

\* line 196: "len(...) > max_line_length" raises TypeError unless it is an int
LengthCompareRaises(rules) == rules.max_line_length.t /= "int"

\* lines 196-207
LengthChecks(curr_line, rules) ==
    Check(rules, "CD0401", Len(rstrip(curr_line)) > rules.max_line_length.i)
    \o Check(rules, "CD0402",
             /\ SectionHeaderMatch(curr_line)
             /\ ~(/\ rules.section_header_length.t = "int"
                  /\ Len(strip(curr_line)) = rules.section_header_length.i))

\* line 211: "line_comment and len(line_comment)" raises TypeError for an
\* int other than 0
CommentLenRaises(rules) ==
    rules.line_comment.t = "int" /\ rules.line_comment.i /= 0

\* lines 210-218
CommentChecks(curr_line, rules) ==
    LET line_comment == rules.line_comment.s IN
    IF /\ Truthy(rules.line_comment)
       /\ Contains(line_comment, curr_line)
       /\ ~SectionHeaderMatch(curr_line)
    THEN Check(rules, "CD0501", ~Contains(line_comment \o <<" ">>, curr_line))
         \o Check(rules, "CD0502",
                  /\ ~Contains(<<" ">> \o line_comment, curr_line)
                  /\ ~startswith(curr_line, line_comment))
    ELSE <<>>

\* inspect_line without the test of line 122: an absent previous line is
\* taken as an empty one
inspect_line_unguarded(prev_line, curr_line, next_line, rules) ==
    LET previous == IF prev_line = None THEN <<NL>> ELSE prev_line IN
    LET edge == FileEdgeChecks(prev_line, curr_line, next_line, rules) IN
    LET empties == edge \o EmptyLineChecks(previous, curr_line, rules) IN
    IF NextLineStripRaises(curr_line, next_line) THEN Raised(empties)
    ELSE
    LET spaces == empties \o BlockEndCheck(curr_line, next_line, rules)
                          \o SpaceChecks(curr_line, rules)
                          \o TabCheck(curr_line, rules) IN
    IF IndentModRaises(rules) THEN Raised(spaces)
    ELSE
    LET indents == spaces \o IndentChecks(previous, curr_line, rules) IN
    IF LengthCompareRaises(rules) THEN Raised(indents)
    ELSE
    LET lengths == indents \o LengthChecks(curr_line, rules) IN
    IF CommentLenRaises(rules) THEN Raised(lengths)
    ELSE Yielded(lengths \o CommentChecks(curr_line, rules))

\* lines 108-217
inspect_line(prev_line, curr_line, next_line, rules) ==
    LET edge == FileEdgeChecks(prev_line, curr_line, next_line, rules) IN
    IF prev_line = None THEN Yielded(edge)
    ELSE
    LET empties == edge \o EmptyLineChecks(prev_line, curr_line, rules) IN
    IF NextLineStripRaises(curr_line, next_line) THEN Raised(empties)
    ELSE
    LET spaces == empties \o BlockEndCheck(curr_line, next_line, rules)
                          \o SpaceChecks(curr_line, rules)
                          \o TabCheck(curr_line, rules) IN
    IF IndentModRaises(rules) THEN Raised(spaces)
    ELSE
    LET indents == spaces \o IndentChecks(prev_line, curr_line, rules) IN
    IF LengthCompareRaises(rules) THEN Raised(indents)
    ELSE
    LET lengths == indents \o LengthChecks(curr_line, rules) IN
    IF CommentLenRaises(rules) THEN Raised(lengths)
    ELSE Yielded(lengths \o CommentChecks(curr_line, rules))

(***************************************************************************)
(* inspect_file: the directives and the scanner state.                     *)
(***************************************************************************)
CodeDustText == <<" ", "C", "o", "d", "e", "D", "u", "s", "t", ":", " ">>
OffText == CodeDustText \o <<"O", "F", "F">>
OnText == CodeDustText \o <<"O", "N">>
SkipText == CodeDustText \o <<"S", "K", "I", "P">>

\* the literals the scanner looks for (lines 260, 263, 266)
OffDirective == OffText \o <<NL>>
OnDirective == OnText \o <<NL>>
SkipDirective == SkipText \o <<NL>>

\* lines 254-256: the scanner state at the start of every file
InitialScanState ==
    [line_number |-> 0, code_dust_enabled |-> TRUE, code_dust_disabled_in_line |-> 0]

\* lines 259-265 with an OFF that records its line but leaves the flag
ApplyDirectivesOffKeepingFlag(state, cl) ==
    LET line_number == state.line_number + 1
        after_off ==
            IF Contains(OffDirective, cl)
            THEN [line_number |-> line_number,
                  code_dust_enabled |-> state.code_dust_enabled,
                  code_dust_disabled_in_line |-> line_number]
            ELSE [state EXCEPT !.line_number = line_number]
    IN  IF Contains(OnDirective, cl)
        THEN [after_off EXCEPT !.code_dust_enabled = TRUE,
                               !.code_dust_disabled_in_line = 0]
        ELSE after_off

\* lines 259-265 with ON looked for as the marker text, line-break or not
ApplyDirectivesOnText(state, cl) ==
    LET line_number == state.line_number + 1
        after_off ==
            IF Contains(OffDirective, cl)
            THEN [line_number |-> line_number,
                  code_dust_enabled |-> FALSE,
                  code_dust_disabled_in_line |-> line_number]
            ELSE [state EXCEPT !.line_number = line_number]
    IN  IF Contains(OnText, cl)
        THEN [after_off EXCEPT !.code_dust_enabled = TRUE,
                               !.code_dust_disabled_in_line = 0]
        ELSE after_off

\* lines 259-265 with the OFF line's number taken before it is counted
ApplyDirectivesOffByOne(state, cl) ==
    LET line_number == state.line_number + 1
        after_off ==
            IF Contains(OffDirective, cl)
            THEN [line_number |-> line_number,
                  code_dust_enabled |-> FALSE,
                  code_dust_disabled_in_line |-> state.line_number]
            ELSE [state EXCEPT !.line_number = line_number]
    IN  IF Contains(OnDirective, cl)
        THEN [after_off EXCEPT !.code_dust_enabled = TRUE,
                               !.code_dust_disabled_in_line = 0]
        ELSE after_off

\* ApplyDirectives with an ON directive that keeps the recorded line number
ApplyDirectivesKeepingLine(state, cl) ==
    LET line_number == state.line_number + 1
        after_off ==
            IF Contains(OffDirective, cl)
            THEN [line_number |-> line_number,
                  code_dust_enabled |-> FALSE,
                  code_dust_disabled_in_line |-> line_number]
            ELSE [state EXCEPT !.line_number = line_number]
    IN  IF Contains(OnDirective, cl)
        THEN [after_off EXCEPT !.code_dust_enabled = TRUE]
        ELSE after_off

\* lines 259-265: count the line, then apply its OFF and ON directives
ApplyDirectives(state, cl) ==
    LET line_number == state.line_number + 1
        after_off ==
            IF Contains(OffDirective, cl)
            THEN [line_number |-> line_number,
                  code_dust_enabled |-> FALSE,
                  code_dust_disabled_in_line |-> line_number]
            ELSE [state EXCEPT !.line_number = line_number]
    IN  IF Contains(OnDirective, cl)
        THEN [after_off EXCEPT !.code_dust_enabled = TRUE,
                               !.code_dust_disabled_in_line = 0]
        ELSE after_off

\* SkipsLine that looks for the SKIP marker text, line-break or not
SkipsLineOnMarkerText(state, cl) ==
    Contains(SkipText, cl) \/ ~state.code_dust_enabled

\* SkipsLine that looks at the SKIP directive only
SkipsLineIgnoringState(state, cl) == Contains(SkipDirective, cl)

\* SkipsLine that looks at the scanner state only
SkipsLineIgnoringMarker(state, cl) == ~state.code_dust_enabled

\* line 266: "continue" without inspecting the line
SkipsLine(state, cl) == Contains(SkipDirective, cl) \/ ~state.code_dust_enabled

\* a previous line taken from the lines handed to inspect_line only: a
\* line with a SKIP directive is no neighbour
PrevLineNotSkipped(lines, k) ==
    IF k = 1 \/ Contains(SkipDirective, lines[k - 1]) THEN None ELSE lines[k - 1]

\* lines 248-252: the zip of [None] + lines[:-1], lines, lines[1:] + [None]
PrevLine(lines, k) == IF k = 1 THEN None ELSE lines[k - 1]
NextLine(lines, k) == IF k = Len(lines) THEN None ELSE lines[k + 1]

\* The text of a message is not modelled: every rule-coded item carries the
\* same token, the trailing diagnostic carries its own.
RuleMessage == "message"
NotReenabledMessage == "CodeDust should be re-enabled afterwards."

\* lines 269-270: (line_number, issue_code, issue_message) per violation
LineItems(line_number, codes) ==
    [k \in 1..Len(codes) |-> <<line_number, codes[k], RuleMessage>>]

\* lines 258-270 for the line at position state.line_number + 1: the new
\* scanner state, the items yielded and whether inspect_line raised
ScanLineStep(state, lines, rules) ==
    LET k == state.line_number + 1
        next_state == ApplyDirectives(state, lines[k])
        result ==
            IF SkipsLine(next_state, lines[k]) THEN Yielded(<<>>)
            ELSE inspect_line(PrevLine(lines, k), lines[k], NextLine(lines, k), rules)
    IN  [state |-> next_state,
         items |-> LineItems(k, result.out),
         raised |-> result.raised]

\* EndOfFileItems that reports the number of the last line scanned
EndOfFileItemsAtLastLine(state) ==
    IF state.code_dust_disabled_in_line > 0
    THEN << <<state.line_number, NotReenabledMessage>> >>
    ELSE <<>>

\* lines 272-273: the items yielded after the last line
EndOfFileItems(state) ==
    IF state.code_dust_disabled_in_line > 0
    THEN << <<state.code_dust_disabled_in_line, NotReenabledMessage>> >>
    ELSE <<>>

(***************************************************************************)
(* A call of inspect_file as a value: the generator's frame.               *)
(***************************************************************************)
\* the generator object inspect_file(file_path, rules) before its first step
NewScan(file) ==
    [file |-> file, pc |-> "open", state |-> InitialScanState, items |-> <<>>]

ScanEnded(scan) == scan.pc \in {"returned", "raised"}

\* lines 241-273: one step of the generator, on its own local variables
GeneratorStep(scan, ruleset) ==
    CASE scan.pc = "open" ->
            IF scan.file.readable
            THEN [scan EXCEPT !.pc = "scan", !.state = InitialScanState]
            ELSE [scan EXCEPT !.pc = "raised"]
      [] scan.pc = "scan" /\ scan.state.line_number < Len(scan.file.lines) ->
            LET step == ScanLineStep(scan.state, scan.file.lines, ruleset) IN
            [scan EXCEPT !.state = step.state,
                         !.items = @ \o step.items,
                         !.pc = IF step.raised THEN "raised" ELSE "scan"]
      [] scan.pc = "scan" /\ scan.state.line_number = Len(scan.file.lines) ->
            [scan EXCEPT !.items = @ \o EndOfFileItems(scan.state),
                         !.pc = "returned"]
      [] OTHER -> scan

\* list(generator): the generator run to its end without interruption
RECURSIVE RunAlone(_, _)
RunAlone(scan, ruleset) ==
    IF ScanEnded(scan) THEN scan ELSE RunAlone(GeneratorStep(scan, ruleset), ruleset)

\* the frame of one generator with the suppression flag of all of them, as
\* a module-level flag would be
FrameWithSharedFlag(all, i) ==
    [all[i] EXCEPT !.state.code_dust_enabled =
        \A j \in 1..Len(all) : all[j].state.code_dust_enabled]

\* lines 254-256: line_number, code_dust_enabled and
\* code_dust_disabled_in_line are local variables of the call
Frame(all, i) == all[i]

(***************************************************************************)
(* __main__: lines 290-292 unpack every item into three names, count it    *)
(* and print it.  An item that is not a triple raises ValueError before it *)
(* is counted or printed.                                                  *)
(***************************************************************************)
RECURSIVE UnpackedPrefix(_)
UnpackedPrefix(items) ==
    IF items = <<>> \/ Len(Head(items)) /= 3 THEN <<>>
    ELSE <<Head(items)>> \o UnpackedPrefix(Tail(items))

UnpackRaises(items) == Len(UnpackedPrefix(items)) < Len(items)

\* the output lines of the items of file number f that main printed
IssueLines(f, items) ==
    [k \in 1..Len(items) |-> <<"issue", f, items[k][1], items[k][2]>>]

(***************************************************************************)
(* Inputs.                                                                 *)
(***************************************************************************)
\* the longest file given to inspect_file on its own
MaxLines == 4
\* the most files one run of __main__ discovers, and their longest
MaxFiles == 2
MaxRunLines == 2
\* the deepest indentation of the lines given to inspect_line
MaxIndent == 4

\* the compiled-in settings of load_rules
DefaultIndentSize == 4
DefaultMaxLineLength == 120
DefaultSectionHeaderLength == 100

\* a rule-code table: the codes of "off" map to False, those of "on" to True
Toggles(off, on) == [code \in off \cup on |-> code \notin off]

\* static_rules, with no configuration file
DefaultRules ==
    [indent_size |-> IntV(DefaultIndentSize),
     max_line_length |-> IntV(DefaultMaxLineLength),
     section_header_length |-> IntV(DefaultSectionHeaderLength),
     line_comment |-> NoneV,
     toggles |-> Toggles({}, {})]

\* a configuration that sets every setting: indent_size = 2,
\* max_line_length = 6, section_header_length = 3, line_comment = #
CustomRules ==
    [indent_size |-> IntV(2),
     max_line_length |-> IntV(6),
     section_header_length |-> IntV(3),
     line_comment |-> StrV(<<"#">>),
     toggles |-> Toggles({}, {})]

\* a configuration with indent_size = 0
ZeroIndentRules == [DefaultRules EXCEPT !.indent_size = IntV(0)]

\* the tables that disable nothing, one code, or every code but one
ToggleTables ==
    {Toggles({}, {})}
    \cup {Toggles({code}, {}) : code \in CodeSet}
    \cup {Toggles(CodeSet \ {code}, {code}) : code \in CodeSet}

LineRuleSets ==
    {[base EXCEPT !.toggles = table] :
        base \in {DefaultRules, CustomRules, ZeroIndentRules},
        table \in ToggleTables}

FileRuleSets ==
    {DefaultRules, CustomRules, ZeroIndentRules,
     [CustomRules EXCEPT !.toggles = Toggles(CodeSet, {})]}

RECURSIVE Spaces(_)
Spaces(n) == IF n = 0 THEN <<>> ELSE <<" ">> \o Spaces(n - 1)

\* the lines given to inspect_line as the current line, without line-break
LineBodies ==
    {<<>>,
     <<" ">>,
     <<"a", " ", "b">>,
     <<"a", " ", " ", "b">>,
     <<"a", " ">>,
     <<"a", " ", ",", "b">>,
     <<"a", " ", ";", "b">>,
     <<"f", "(", " ", "a", " ", ")">>,
     <<"a", ",", "b">>,
     <<"a", ";", "b">>,
     <<"a", "=", "b">>,
     <<"a", "=", "=", "=", "=", "b">>,
     <<TAB, "a">>,
     <<"#", "#", "#">>,
     <<"-", "-">>,
     <<"#", "b">>,
     <<"a", "#", "b">>,
     <<"a", " ", "#", " ", "b">>,
     <<"a", "a", "a", "a", "a", "a", "a">>,
     <<"{">>,
     <<"}">>}
    \cup {Spaces(n) \o <<"a">> : n \in 0..MaxIndent}

Terminated(bodies) == {body \o <<NL>> : body \in bodies}

PrevLines ==
    {None}
    \cup Terminated({<<>>, <<"a">>, <<"a", " ", "{">>, <<" ", " ", "a">>,
                     <<"#", "#", "#">>})
NextLines == {None} \cup Terminated({<<>>, <<"a">>, <<"}">>, <<"#", " ", "a">>})

\* (prev_line, curr_line, next_line) as inspect_file builds them: only the
\* last line of a file can lack the line-break, and no line is ""
LineContexts ==
    {<<p, c, n>> : p \in PrevLines, c \in Terminated(LineBodies), n \in NextLines}
    \cup {<<p, c, None>> : p \in PrevLines, c \in LineBodies \ {<<>>}}

\* the lines of the files given to inspect_file
CodeLine == <<"a">>
TrailingSpaceLine == <<"a", " ">>
BlankLine == <<>>
OffLine == <<"#">> \o OffText
OnLine == <<"#">> \o OnText
SkipLine == <<"a", " ", " ", "#">> \o SkipText
\* the ON marker followed by more text
LaterOnLine == OnLine \o <<" ", "x">>
\* the SKIP marker followed by the ON marker
SkipOnLine == SkipLine \o OnText

InnerLines ==
    Terminated({CodeLine, TrailingSpaceLine, BlankLine, OffLine, OnLine, SkipLine})
LastLines ==
    InnerLines \cup Terminated({LaterOnLine, SkipOnLine})
    \cup {CodeLine, OffLine, OnLine, SkipLine}

\* what readlines() can return for a file of n lines
RECURSIVE FileLines(_)
FileLines(n) ==
    IF n = 0 THEN {<<>>}
    ELSE IF n = 1 THEN {<<last>> : last \in LastLines}
    ELSE {<<first>> \o rest : first \in InnerLines, rest \in FileLines(n - 1)}

Readable(lines) == [readable |-> TRUE, lines |-> lines]
Unreadable == [readable |-> FALSE, lines |-> <<>>]

ScanFiles ==
    {Unreadable} \cup {Readable(lines) : lines \in UNION {FileLines(n) : n \in 0..MaxLines}}

\* the files a run of __main__ discovers
RunInnerLines == Terminated({CodeLine, TrailingSpaceLine, BlankLine, OffLine})
RunLastLines == RunInnerLines \cup {CodeLine}

RECURSIVE RunFileLines(_)
RunFileLines(n) ==
    IF n = 0 THEN {<<>>}
    ELSE IF n = 1 THEN {<<last>> : last \in RunLastLines}
    ELSE {<<first>> \o rest : first \in RunInnerLines, rest \in RunFileLines(n - 1)}

RunFiles ==
    {Unreadable}
    \cup {Readable(lines) : lines \in UNION {RunFileLines(n) : n \in 0..MaxRunLines}}

\* the files of two scans that run interleaved
MaxParLines == 2
ParLines == Terminated({TrailingSpaceLine, OffLine, OnLine})

RECURSIVE ParFileLines(_)
ParFileLines(n) ==
    IF n = 0 THEN {<<>>}
    ELSE {<<first>> \o rest : first \in ParLines, rest \in ParFileLines(n - 1)}

ParFiles ==
    {Unreadable}
    \cup {Readable(lines) : lines \in UNION {ParFileLines(n) : n \in 0..MaxParLines}}
ParRuleSets == {DefaultRules, CustomRules}

\* the files get_files yields for the given paths, in the order of os.walk
RECURSIVE Trees(_)
Trees(n) ==
    IF n = 0 THEN {<<>>}
    ELSE Trees(n - 1)
         \cup {Append(tree, file) : tree \in {t \in Trees(n - 1) : Len(t) = n - 1},
                                   file \in RunFiles}

\* the outcomes of the checks of validate_args
ArgSets ==
    {[paths_are_dirs |-> TRUE, config_found |-> TRUE],
     [paths_are_dirs |-> FALSE, config_found |-> TRUE],
     [paths_are_dirs |-> TRUE, config_found |-> FALSE]}

(***************************************************************************)
(* load_rules: the rule-set of each extension, from the compiled-in        *)
(* settings and the configuration file.  A dict is a function from its     *)
(* keys, which are strings, to its values.                                 *)
(***************************************************************************)
BoolV(b) == [t |-> "bool", i |-> IF b THEN 1 ELSE 0, s |-> <<>>]

EmptyDict == [key \in {} |-> NoneV]

LowerLetters == <<"a", "b", "c", "d", "e", "f", "g", "h", "i", "j", "k", "l", "m", "n", "o", "p", "q", "r", "s", "t", "u", "v", "w", "x", "y", "z">>
UpperLetters == <<"A", "B", "C", "D", "E", "F", "G", "H", "I", "J", "K", "L", "M", "N", "O", "P", "Q", "R", "S", "T", "U", "V", "W", "X", "Y", "Z">>
DigitChars == <<"0", "1", "2", "3", "4", "5", "6", "7", "8", "9">>

LetterIndex(letters, ch) == CHOOSE k \in 1..Len(letters) : letters[k] = ch

\* str.upper() and str.lower()
upper(str) ==
    [k \in 1..Len(str) |->
        IF str[k] \in LowerCase
        THEN UpperLetters[LetterIndex(LowerLetters, str[k])] ELSE str[k]]

lower(str) ==
    [k \in 1..Len(str) |->
        IF str[k] \in UpperCase
        THEN LowerLetters[LetterIndex(UpperLetters, str[k])] ELSE str[k]]

RECURSIVE DecimalValue(_)
DecimalValue(digits) ==
    IF digits = <<>> THEN 0
    ELSE 10 * DecimalValue(SubSeq(digits, 1, Len(digits) - 1))
         + (LetterIndex(DigitChars, digits[Len(digits)]) - 1)

\* int(value) as line 96 calls it: an int is returned as it is, None raises
\* TypeError, and a str is parsed: surrounding whitespace is dropped, one
\* sign is allowed, and the rest must be decimal digits (the "_" that
\* Python allows between digits is not in the sample values), else
\* ValueError is raised.
int_of(value) ==
    LET str == strip(value.s)
        signed == str /= <<>> /\ Head(str) \in {"+", "-"}
        digits == IF signed THEN Tail(str) ELSE str
        number == digits /= <<>> /\ \A k \in 1..Len(digits) : digits[k] \in Digits
    IN  CASE value.t = "int" -> [raised |-> FALSE, value |-> value]
          [] value.t = "str" /\ number ->
                [raised |-> FALSE,
                 value |-> IntV(IF signed /\ Head(str) = "-"
                                THEN 0 - DecimalValue(digits)
                                ELSE DecimalValue(digits))]
          [] OTHER -> [raised |-> TRUE, value |-> value]

\* lines 95-98: the best-effort conversion; the bare except keeps the value
BestEffortInt(value) ==
    IF int_of(value).raised THEN value ELSE int_of(value).value

\* re.match(r"CD[0-9]{4}", rule.upper()): the pattern is matched at the
\* start of the key, what follows the four digits is not looked at
IsRuleCodeKey(rule) ==
    LET str == upper(rule) IN
    /\ Len(str) >= 6
    /\ str[1] = "C"
    /\ str[2] = "D"
    /\ \A k \in 3..6 : str[k] \in Digits

DisableWord == <<"d", "i", "s", "a", "b", "l", "e">>

\* line 92 without the .lower()
ToggleValueCaseSensitive(value) == BoolV(value.s /= DisableWord)

\* line 92: False if the value, lower-cased, is "disable", else True
ToggleValue(value) == BoolV(lower(value.s) /= DisableWord)

IndentSizeKey == <<"i", "n", "d", "e", "n", "t", "_", "s", "i", "z", "e">>
MaxLineLengthKey == <<"m", "a", "x", "_", "l", "i", "n", "e", "_", "l", "e", "n", "g", "t", "h">>
SectionHeaderLengthKey == <<"s", "e", "c", "t", "i", "o", "n", "_", "h", "e", "a", "d", "e", "r", "_", "l", "e", "n", "g", "t", "h">>
LineCommentKey == <<"l", "i", "n", "e", "_", "c", "o", "m", "m", "e", "n", "t">>
DefaultSection == <<"d", "e", "f", "a", "u", "l", "t">>

\* lines 71-76
static_rules ==
    (IndentSizeKey :> IntV(DefaultIndentSize))
    @@ (MaxLineLengthKey :> IntV(DefaultMaxLineLength))
    @@ (SectionHeaderLengthKey :> IntV(DefaultSectionHeaderLength))
    @@ (LineCommentKey :> NoneV)

\* {**first, **second} with the first dict winning
DictMergeFirstWins(first, second) ==
    [key \in DOMAIN first \cup DOMAIN second |->
        IF key \in DOMAIN first THEN first[key] ELSE second[key]]

\* {**first, **second}: the value of second wins for a key of both
DictMerge(first, second) ==
    [key \in DOMAIN first \cup DOMAIN second |->
        IF key \in DOMAIN second THEN second[key] ELSE first[key]]

\* A configuration file is given or not (config_file is None), and holds
\* sections of "key = value" lines.
NoConfigFile == [given |-> FALSE, sections |-> EmptyDict]
ConfigFile(sections) == [given |-> TRUE, sections |-> sections]

\* lines 80-81: ConfigParser().read(config_file).  The parser lower-cases
\* every key (optionxform) and every value is a str; a section that held
\* one key in two spellings would be rejected, so the sample files hold
\* none.
ConfigRead(sections) ==
    [name \in DOMAIN sections |->
        [key \in {lower(written) : written \in DOMAIN sections[name]} |->
            StrV(sections[name][CHOOSE written \in DOMAIN sections[name] :
                                    lower(written) = key])]]

\* lines 78-81
ReadConfig(config_file) ==
    IF config_file.given THEN ConfigRead(config_file.sections) ELSE EmptyDict

\* config[name] if name in config else {}
SectionOrEmpty(config, name) ==
    IF name \in DOMAIN config THEN config[name] ELSE EmptyDict

\* lines 90-98: the loop over the keys of one extension's dict.  The keys
\* are lower-case or compiled-in, so no two of them have the same
\* upper-case form.
ConvertValues(dict) ==
    LET code_keys == {rule \in DOMAIN dict : IsRuleCodeKey(rule)}
        other_keys == DOMAIN dict \ code_keys
    IN  [key \in other_keys \cup {upper(rule) : rule \in code_keys} |->
            IF key \in other_keys
            THEN BestEffortInt(dict[key])
            ELSE ToggleValue(dict[CHOOSE rule \in code_keys : upper(rule) = key])]

\* lines 70-100
load_rules(config_file, exts) ==
    LET config == ReadConfig(config_file)
        default_rules == DictMerge(static_rules, SectionOrEmpty(config, DefaultSection))
    IN  [ext \in {exts[k] : k \in 1..Len(exts)} |->
            ConvertValues(DictMerge(default_rules, SectionOrEmpty(config, ext)))]

\* the key under which inspect_line looks a rule code up (rules.get(code))
CodeKeys ==
    ("CD0101" :> <<"C", "D", "0", "1", "0", "1">>) @@
    ("CD0102" :> <<"C", "D", "0", "1", "0", "2">>) @@
    ("CD0103" :> <<"C", "D", "0", "1", "0", "3">>) @@
    ("CD0104" :> <<"C", "D", "0", "1", "0", "4">>) @@
    ("CD0105" :> <<"C", "D", "0", "1", "0", "5">>) @@
    ("CD0106" :> <<"C", "D", "0", "1", "0", "6">>) @@
    ("CD0201" :> <<"C", "D", "0", "2", "0", "1">>) @@
    ("CD0202" :> <<"C", "D", "0", "2", "0", "2">>) @@
    ("CD0203" :> <<"C", "D", "0", "2", "0", "3">>) @@
    ("CD0204" :> <<"C", "D", "0", "2", "0", "4">>) @@
    ("CD0205" :> <<"C", "D", "0", "2", "0", "5">>) @@
    ("CD0206" :> <<"C", "D", "0", "2", "0", "6">>) @@
    ("CD0207" :> <<"C", "D", "0", "2", "0", "7">>) @@
    ("CD0208" :> <<"C", "D", "0", "2", "0", "8">>) @@
    ("CD0209" :> <<"C", "D", "0", "2", "0", "9">>) @@
    ("CD0210" :> <<"C", "D", "0", "2", "1", "0">>) @@
    ("CD0301" :> <<"C", "D", "0", "3", "0", "1">>) @@
    ("CD0302" :> <<"C", "D", "0", "3", "0", "2">>) @@
    ("CD0303" :> <<"C", "D", "0", "3", "0", "3">>) @@
    ("CD0401" :> <<"C", "D", "0", "4", "0", "1">>) @@
    ("CD0402" :> <<"C", "D", "0", "4", "0", "2">>) @@
    ("CD0501" :> <<"C", "D", "0", "5", "0", "1">>) @@
    ("CD0502" :> <<"C", "D", "0", "5", "0", "2">>)

\* One extension's dict as inspect_line reads it: the four settings
\* (rules["indent_size"], ...) and the rule codes it asks for (rules.get).
RuleSet(dict) ==
    [indent_size |-> dict[IndentSizeKey],
     max_line_length |-> dict[MaxLineLengthKey],
     section_header_length |-> dict[SectionHeaderLengthKey],
     line_comment |-> dict[LineCommentKey],
     toggles |-> [code \in {c \in CodeSet : CodeKeys[c] \in DOMAIN dict} |->
                    dict[CodeKeys[code]] /= BoolV(FALSE)]]

\* the extensions given with -e
PyExt == <<"p", "y">>
JsExt == <<"j", "s">>
ExtensionLists == {<<PyExt>>, <<PyExt, JsExt>>}

\* keys as a configuration file may spell them, and values
FileKeys ==
    {IndentSizeKey, MaxLineLengthKey, SectionHeaderLengthKey, LineCommentKey,
     <<"c", "d", "0", "2", "0", "2">>, <<"C", "D", "0", "2", "0", "2">>, <<"C", "d", "0", "1", "0", "4">>}
FileValues ==
    {<<"2">>, <<"0">>, <<"-", "4">>, <<"a", "b", "c">>, <<"d", "i", "s", "a", "b", "l", "e">>, <<"D", "i", "s", "a", "b", "l", "e">>, <<"e", "n", "a", "b", "l", "e">>}

\* a section of a sample file: absent, or present with its lines
AbsentSection == [present |-> FALSE, keys |-> EmptyDict]
Section(keys) == [present |-> TRUE, keys |-> keys]

\* the sections with one line, and one that sets all four settings
CustomSettings ==
    (IndentSizeKey :> <<"2">>) @@ (MaxLineLengthKey :> <<"6">>)
    @@ (SectionHeaderLengthKey :> <<"3">>) @@ (LineCommentKey :> <<"#">>)
SampleSections ==
    {AbsentSection, Section(EmptyDict), Section(CustomSettings)}
    \cup {Section(key :> value) : key \in FileKeys, value \in FileValues}
JsSections ==
    {AbsentSection, Section(IndentSizeKey :> <<"8">>), Section(<<"c", "d", "0", "2", "0", "2">> :> <<"d", "i", "s", "a", "b", "l", "e">>)}

\* the file with the sections [default], [py] and [js] as chosen
Sections(default, py, js) ==
    LET chosen == (DefaultSection :> default) @@ (PyExt :> py) @@ (JsExt :> js) IN
    [name \in {n \in DOMAIN chosen : chosen[n].present} |-> chosen[name].keys]

RuleConfigFiles ==
    {NoConfigFile}
    \cup {ConfigFile(Sections(default, py, js)) :
            default \in SampleSections, py \in SampleSections, js \in JsSections}

\* a [py] section that disables every rule code, spelled in lower case
AllDisabled == [key \in {lower(CodeKeys[code]) : code \in CodeSet} |-> DisableWord]

\* the files given to a run of __main__: none, and files that make the
\* rule-sets of FileRuleSets
RunConfigFiles ==
    {NoConfigFile,
     ConfigFile(DefaultSection :> CustomSettings),
     ConfigFile(PyExt :> (IndentSizeKey :> <<"0">>)),
     ConfigFile((DefaultSection :> CustomSettings) @@ (PyExt :> AllDisabled))}

(***************************************************************************)
(* State.                                                                  *)
(***************************************************************************)
VARIABLES
    caller,     \* who runs: "line" (a call of inspect_line), "list" (a call
                \* list(inspect_file(...)), as the tests make it), "main"
    pc,         \* where the caller is
    args,       \* main: what validate_args finds
    config_file,            \* the configuration file given to load_rules
    extensions,             \* the extensions given to load_rules
    rules_per_extension,    \* what load_rules returns
    rules,      \* the rule-set
    tree,       \* the files get_files finds under the paths, in order
    files,      \* the files opened so far; the last one is being scanned
    line_number,
    code_dust_enabled,
    code_dust_disabled_in_line,
    yielded,    \* yielded[f]: the items inspect_file yielded for files[f]
    issue_count,
    stdout,     \* main: the lines printed
    exit_code,  \* main: <<>> while running, <<code>> once the process ended
    scans,      \* two scans that run interleaved: for each its file, where
                \* it is, its local variables and the items it has yielded
    prev_line, curr_line, next_line,   \* the arguments of inspect_line
    issues      \* the result of inspect_line, <<>> before the call

vars ==
    <<caller, pc, args, config_file, extensions, rules_per_extension, rules, tree, files, line_number, code_dust_enabled,
      code_dust_disabled_in_line, yielded, issue_count, stdout, exit_code,
      scans, prev_line, curr_line, next_line, issues>>

loadVars == <<config_file, extensions, rules_per_extension>>
scanVars == <<line_number, code_dust_enabled, code_dust_disabled_in_line>>
lineVars == <<prev_line, curr_line, next_line, issues>>

ScanState ==
    [line_number |-> line_number,
     code_dust_enabled |-> code_dust_enabled,
     code_dust_disabled_in_line |-> code_dust_disabled_in_line]

SetScanState(state) ==
    /\ line_number' = state.line_number
    /\ code_dust_enabled' = state.code_dust_enabled
    /\ code_dust_disabled_in_line' = state.code_dust_disabled_in_line

CurrentFile == files[Len(files)]

NoLineCall ==
    /\ prev_line = None
    /\ curr_line = <<>>
    /\ next_line = None
    /\ issues = <<>>

NoScan ==
    /\ scans = <<>>
    /\ tree = <<>>
    /\ files = <<>>
    /\ yielded = <<>>
    /\ line_number = 0
    /\ code_dust_enabled = TRUE
    /\ code_dust_disabled_in_line = 0

(***************************************************************************)
(* Initial states: one per entry point.                                    *)
(***************************************************************************)
NoLoad ==
    /\ config_file = NoConfigFile
    /\ extensions = <<>>
    /\ rules_per_extension = EmptyDict

NoMain ==
    /\ args = [paths_are_dirs |-> TRUE, config_found |-> TRUE]
    /\ issue_count = 0
    /\ stdout = <<>>
    /\ exit_code = <<>>

\* a call inspect_line(prev_line, curr_line, next_line, rules)
InitLine ==
    /\ caller = "line"
    /\ pc = "call"
    /\ \E context \in LineContexts :
        /\ prev_line = context[1]
        /\ curr_line = context[2]
        /\ next_line = context[3]
    /\ rules \in LineRuleSets
    /\ issues = <<>>
    /\ NoLoad
    /\ NoScan
    /\ NoMain

\* a call list(inspect_file(file_path, rules))
Init ==
    /\ caller = "list"
    /\ pc = "open"
    /\ rules \in FileRuleSets
    /\ \E file \in ScanFiles : tree = <<file>> /\ files = <<file>>
    /\ yielded = << <<>> >>
    /\ scans = <<>>
    /\ line_number = 0
    /\ code_dust_enabled = TRUE
    /\ code_dust_disabled_in_line = 0
    /\ NoLoad
    /\ NoLineCall
    /\ NoMain

\* a run of __main__, after parse_args; rules is not assigned before
\* load_rules runs
InitMain ==
    /\ caller = "main"
    /\ pc = "validate_args"
    /\ args \in ArgSets
    /\ config_file \in RunConfigFiles
    /\ extensions = <<PyExt>>
    /\ rules_per_extension = EmptyDict
    /\ rules = DefaultRules
    /\ issue_count = 0
    /\ stdout = <<>>
    /\ exit_code = <<>>
    /\ tree \in Trees(MaxFiles)
    /\ scans = <<>>
    /\ files = <<>>
    /\ yielded = <<>>
    /\ line_number = 0
    /\ code_dust_enabled = TRUE
    /\ code_dust_disabled_in_line = 0
    /\ NoLineCall

\* two calls list(inspect_file(file_path, rules)), one after the other
InitTwice ==
    /\ caller = "twice"
    /\ pc = "open"
    /\ rules \in FileRuleSets
    /\ \E file \in RunFiles : tree = <<file>> /\ files = <<file>>
    /\ yielded = << <<>> >>
    /\ scans = <<>>
    /\ line_number = 0
    /\ code_dust_enabled = TRUE
    /\ code_dust_disabled_in_line = 0
    /\ NoLoad
    /\ NoLineCall
    /\ NoMain

\* two generators inspect_file(a, rules) and inspect_file(b, rules) whose
\* steps the caller interleaves
InitPar ==
    /\ caller = "par"
    /\ pc = "scanning"
    /\ rules \in ParRuleSets
    /\ \E a \in ParFiles, b \in ParFiles : scans = <<NewScan(a), NewScan(b)>>
    /\ tree = <<>>
    /\ files = <<>>
    /\ yielded = <<>>
    /\ line_number = 0
    /\ code_dust_enabled = TRUE
    /\ code_dust_disabled_in_line = 0
    /\ NoLoad
    /\ NoLineCall
    /\ NoMain

\* a call load_rules(config_file, extensions)
InitRules ==
    /\ caller = "load"
    /\ pc = "load_rules"
    /\ config_file \in RuleConfigFiles
    /\ extensions \in ExtensionLists
    /\ rules_per_extension = EmptyDict
    /\ rules = DefaultRules
    /\ NoScan
    /\ NoLineCall
    /\ NoMain

(***************************************************************************)
(* Actions.                                                                *)
(***************************************************************************)
InspectLine ==
    /\ caller = "line"
    /\ pc = "call"
    /\ issues' = inspect_line(prev_line, curr_line, next_line, rules)
    /\ pc' = "done"
    /\ UNCHANGED <<caller, args, loadVars, scans, rules, tree, files, scanVars, yielded, issue_count,
                   stdout, exit_code, prev_line, curr_line, next_line>>

\* An exception leaves inspect_file.  list() passes it on to its caller;
\* __main__ catches nothing, so the interpreter ends the process with a
\* traceback and exit status 1, and line 294 is not reached.
Propagate ==
    /\ pc' = "raised"
    /\ exit_code' = IF caller = "main" THEN <<1>> ELSE exit_code

\* lines 242-256 with the suppression state kept from the scan before, as
\* module-level flags would be
OpenFileKeepingState ==
    /\ pc = "open"
    /\ IF CurrentFile.readable
       THEN /\ line_number' = 0
            /\ UNCHANGED <<code_dust_enabled, code_dust_disabled_in_line>>
            /\ pc' = "scan"
            /\ UNCHANGED exit_code
       ELSE /\ Propagate
            /\ UNCHANGED scanVars
    /\ UNCHANGED <<caller, args, loadVars, scans, rules, tree, files, yielded,
                   issue_count, stdout, lineVars>>

\* lines 242-256: the first step of the generator inspect_file
OpenFile ==
    /\ pc = "open"
    /\ IF CurrentFile.readable
       THEN /\ SetScanState(InitialScanState)
            /\ pc' = "scan"
            /\ UNCHANGED exit_code
       ELSE /\ Propagate
            /\ UNCHANGED scanVars
    /\ UNCHANGED <<caller, args, loadVars, scans, rules, tree, files, yielded, issue_count, stdout,
                   lineVars>>

\* The items inspect_file yields reach its caller one by one: list()
\* collects them, the loop of __main__ (lines 290-292) unpacks, counts and
\* prints each.  "raised" tells that inspect_line raised after these items.
Deliver(items, raised, continue_at) ==
    /\ yielded' = [yielded EXCEPT ![Len(files)] = @ \o items]
    /\ IF caller = "main"
       THEN /\ issue_count' = issue_count + Len(UnpackedPrefix(items))
            /\ stdout' = stdout \o IssueLines(Len(files), UnpackedPrefix(items))
            /\ IF raised \/ UnpackRaises(items)
               THEN Propagate
               ELSE pc' = continue_at /\ UNCHANGED exit_code
       ELSE /\ UNCHANGED <<issue_count, stdout>>
            /\ IF raised
               THEN Propagate
               ELSE pc' = continue_at /\ UNCHANGED exit_code

\* lines 258-270: one pass of the loop over the lines
ScanLine ==
    /\ pc = "scan"
    /\ line_number < Len(CurrentFile.lines)
    /\ LET step == ScanLineStep(ScanState, CurrentFile.lines, rules) IN
        /\ SetScanState(step.state)
        /\ Deliver(step.items, step.raised, "scan")
    /\ UNCHANGED <<caller, args, loadVars, scans, rules, tree, files, lineVars>>

\* lines 272-273: after the last line
EndOfFile ==
    /\ pc = "scan"
    /\ line_number = Len(CurrentFile.lines)
    /\ Deliver(EndOfFileItems(ScanState), FALSE,
               IF caller = "main" THEN "get_files" ELSE "returned")
    /\ UNCHANGED <<caller, args, loadVars, scans, rules, tree, files, scanVars, lineVars>>

\* The caller resumes generator i, which takes its next step.
Resume(i) ==
    /\ caller = "par"
    /\ scans' = [scans EXCEPT ![i] = GeneratorStep(Frame(scans, i), rules)]
    /\ UNCHANGED <<caller, pc, args, loadVars, rules, tree, files, scanVars,
                   yielded, issue_count, stdout, exit_code, lineVars>>

\* lines 242-256 in generator i
ParOpenFile(i) ==
    /\ scans[i].pc = "open"
    /\ Resume(i)

\* lines 258-270 in generator i
ParScanLine(i) ==
    /\ scans[i].pc = "scan"
    /\ scans[i].state.line_number < Len(scans[i].file.lines)
    /\ Resume(i)

\* lines 272-273 in generator i
ParEndOfFile(i) ==
    /\ scans[i].pc = "scan"
    /\ scans[i].state.line_number = Len(scans[i].file.lines)
    /\ Resume(i)

\* a second call list(inspect_file(file_path, rules)) for the same file and
\* rule-set, after the first has returned or raised; the local variables of
\* the first call are gone
CallAgain ==
    /\ caller = "twice"
    /\ pc \in {"returned", "raised"}
    /\ Len(files) < 2
    /\ files' = Append(files, files[1])
    /\ yielded' = Append(yielded, <<>>)
    /\ pc' = "open"
    /\ UNCHANGED <<caller, args, loadVars, scans, rules, tree, scanVars, issue_count,
                   stdout, exit_code, lineVars>>

\* lines 57-65 without the sys.exit an absent config would leave out
validate_args_ignoring_config(found) == found.paths_are_dirs

\* lines 57-65: validate_args returns, instead of ending the process, when
\* every path is a directory and the config file, if one is given, exists
validate_args_returns(found) == found.paths_are_dirs /\ found.config_found

\* lines 57-65: sys.exit() without an argument ends the process with status 0
ValidateArgs ==
    /\ pc = "validate_args"
    /\ IF validate_args_returns(args)
       THEN /\ pc' = "load_rules"
            /\ UNCHANGED <<stdout, exit_code>>
       ELSE /\ stdout' = Append(stdout, <<"not found">>)
            /\ exit_code' = <<0>>
            /\ pc' = "exited"
    /\ UNCHANGED <<caller, args, loadVars, scans, rules, tree, files, scanVars, yielded, issue_count,
                   lineVars>>

\* line 285: load_rules is called; a run of __main__ with one extension
\* takes that extension's rule-set for every file (line 290)
LoadRules ==
    /\ pc = "load_rules"
    /\ rules_per_extension' = load_rules(config_file, extensions)
    /\ IF caller = "main"
       THEN /\ rules' = RuleSet(rules_per_extension'[extensions[1]])
            /\ pc' = "get_files"
       ELSE /\ rules' = rules
            /\ pc' = "loaded"
    /\ UNCHANGED <<caller, args, config_file, extensions, scans, tree, files, scanVars,
                   yielded, issue_count, stdout, exit_code, lineVars>>

\* lines 288-290: get_files yields one more file and inspect_file is called
GetFile ==
    /\ pc = "get_files"
    /\ Len(files) < Len(tree)
    /\ files' = Append(files, tree[Len(files) + 1])
    /\ yielded' = Append(yielded, <<>>)
    /\ pc' = "open"
    /\ UNCHANGED <<caller, args, loadVars, scans, rules, tree, scanVars, issue_count, stdout,
                   exit_code, lineVars>>

ExitStatus(count) == IF count > 0 THEN 1 ELSE 0

\* lines 294-296: get_files is exhausted
Finish ==
    /\ pc = "get_files"
    /\ Len(files) = Len(tree)
    /\ stdout' = Append(stdout, <<"summary", issue_count>>)
    /\ exit_code' = <<ExitStatus(issue_count)>>
    /\ pc' = "exited"
    /\ UNCHANGED <<caller, args, loadVars, scans, rules, tree, files, scanVars, yielded, issue_count,
                   lineVars>>

LineNext == InspectLine
RulesNext == LoadRules
Next == OpenFile \/ ScanLine \/ EndOfFile
ParNext ==
    \E i \in 1..2 : ParOpenFile(i) \/ ParScanLine(i) \/ ParEndOfFile(i)
TwiceNext == OpenFile \/ ScanLine \/ EndOfFile \/ CallAgain
MainNext ==
    ValidateArgs \/ LoadRules \/ GetFile \/ OpenFile \/ ScanLine \/ EndOfFile
    \/ Finish

SpecLine == InitLine /\ [][LineNext]_vars
SpecRules == InitRules /\ [][RulesNext]_vars
Spec == Init /\ [][Next]_vars
SpecPar == InitPar /\ [][ParNext]_vars
SpecTwice == InitTwice /\ [][TwiceNext]_vars
SpecMain == InitMain /\ [][MainNext]_vars

(***************************************************************************)
(* Properties of inspect_line (under SpecLine).                            *)
(***************************************************************************)
SeqRange(seq) == {seq[k] : k \in 1..Len(seq)}

LineCallDone == caller = "line" /\ pc = "done"

\* the codes the rule-set maps to False
DisabledCodes(ruleset) ==
    {code \in DOMAIN ruleset.toggles : ruleset.toggles[code] = FALSE}

\* C1: inspect_line never yields a violation whose rule code the rule-set
\* maps to False, whatever the line context and whichever other codes are
\* enabled or disabled.
C1_DisabledCodeNeverYielded ==
    LineCallDone => SeqRange(issues.out) \cap DisabledCodes(rules) = {}

\* C1 witness: a line with a trailing space and a present previous line
\* was inspected with only CD0202 disabled, and other codes were yielded.
C1_Witness ==
    /\ LineCallDone
    /\ DisabledCodes(rules) = {"CD0202"}
    /\ prev_line /= None
    /\ endswith(curr_line, <<" ", NL>>)
    /\ issues.out /= <<>>

\* the rule-sets of the data model: the numeric settings are positive ints
PositiveSettings(ruleset) ==
    /\ ruleset.indent_size.t = "int" /\ ruleset.indent_size.i > 0
    /\ ruleset.max_line_length.t = "int" /\ ruleset.max_line_length.i > 0
    /\ ruleset.section_header_length.t = "int"
    /\ ruleset.section_header_length.i > 0

\* C6: inspect_line never raises: for every line context (previous and next
\* line absent or present) and every rule-set with positive numeric
\* settings, the iteration over its violations finishes without an
\* exception, also for a blank current line with a present previous line
\* and no next line.
C6_NeverRaises == (LineCallDone /\ PositiveSettings(rules)) => ~issues.raised

\* C7: for an empty current line without a next line, and a rule-set with
\* positive numeric settings, the violations obtained from inspect_line
\* contain CD0102 (unless disabled), whether or not there is a previous
\* line; with a non-empty previous line that does not end in an opening
\* bracket the violations obtained are exactly CD0102.
C7_EndOfFileBlankLine ==
    (/\ LineCallDone
     /\ PositiveSettings(rules)
     /\ is_line_empty(curr_line)
     /\ next_line = None
     /\ "CD0102" \notin DisabledCodes(rules))
    => /\ ~issues.raised
       /\ "CD0102" \in SeqRange(issues.out)
       /\ (/\ prev_line /= None
           /\ ~is_line_empty(prev_line)
           /\ strip(prev_line)[Len(strip(prev_line))] \notin {"{", "[", "(", "<"})
          => issues.out = <<"CD0102">>

\* C17: for a file of one blank line (previous and next line absent)
\* inspect_line yields CD0101 and CD0102, and CD0103 exactly when the line
\* has no trailing line-break; it yields no other code, and each of these
\* unless the rule-set disables it.
C17_SingleBlankLine ==
    (/\ LineCallDone
     /\ prev_line = None
     /\ next_line = None
     /\ is_line_empty(curr_line))
    => /\ ~issues.raised
       /\ Len(issues.out) = Cardinality(SeqRange(issues.out))
       /\ \A code \in CodeSet :
            code \in SeqRange(issues.out)
            <=> /\ code \notin DisabledCodes(rules)
                /\ \/ code \in {"CD0101", "CD0102"}
                   \/ /\ code = "CD0103"
                      /\ (curr_line = <<>> \/ curr_line[Len(curr_line)] /= NL)

\* C17 witness: a single blank line without line-break got all three codes.
C17_Witness ==
    /\ LineCallDone
    /\ prev_line = None
    /\ next_line = None
    /\ curr_line = <<" ">>
    /\ issues.out = <<"CD0101", "CD0102", "CD0103">>

\* C18: for a current line with a present previous line and a positive
\* indent_size, CD0302 is yielded exactly when the number of leading
\* spaces is not a multiple of indent_size, and CD0303 exactly when the
\* previous line is not empty and the indent exceeds the previous line's
\* by more than indent_size (so never after an empty previous line); both
\* unless the rule-set disables the code.
C18_IndentationRules ==
    (/\ LineCallDone
     /\ prev_line /= None
     /\ rules.indent_size.t = "int"
     /\ rules.indent_size.i > 0
     /\ DisabledCodes(rules) \cap {"CD0302", "CD0303"} = {})
    => /\ "CD0302" \in SeqRange(issues.out)
          <=> line_indent(curr_line) % rules.indent_size.i /= 0
       /\ "CD0303" \in SeqRange(issues.out)
          <=> /\ ~is_line_empty(prev_line)
              /\ line_indent(curr_line) - line_indent(prev_line) > rules.indent_size.i

\* a comment line: the line's text starts with the line-comment marker
IsCommentLine(line, line_comment) ==
    /\ line_comment.t = "str"
    /\ line_comment.s /= <<>>
    /\ startswith(lstrip(line), line_comment.s)

\* C19: inspect_line yields CD0107 when the current line is empty, the
\* previous line is a section header and the next line is not a comment
\* line, and does not yield it when the next line is a comment line.
C19_EmptyLineAfterSectionHeader ==
    (/\ LineCallDone
     /\ prev_line /= None
     /\ next_line /= None
     /\ is_line_empty(curr_line)
     /\ SectionHeaderMatch(prev_line)
     /\ Len(strip(prev_line)) > 1)
    => ("CD0107" \in SeqRange(issues.out)
        <=> ~IsCommentLine(next_line, rules.line_comment))

\* C22: the checks CD0104 to CD0106 and CD0201 to CD0502 are evaluated only
\* when the previous line is present: for the first line of a file
\* (previous line absent) inspect_line yields no code other than CD0101,
\* CD0102 and CD0103, whatever the line contains, and does not raise.
C22_FirstLineGetsEdgeChecksOnly ==
    (LineCallDone /\ prev_line = None)
    => /\ ~issues.raised
       /\ SeqRange(issues.out) \subseteq {"CD0101", "CD0102", "CD0103"}

\* C22 witness: a first line with a space before a comma, which as a later
\* line gets CD0203, got nothing.
C22_Witness ==
    /\ LineCallDone
    /\ prev_line = None
    /\ curr_line = <<"a", " ", ",", "b", NL>>
    /\ next_line = <<"a", NL>>
    /\ DisabledCodes(rules) = {}
    /\ issues.out = <<>>

\* the place of a rule code in the ascending list CD0101, ..., CD0502
CodeRank(code) == CHOOSE k \in 1..Len(Codes) : Codes[k] = code

\* C23: the violations inspect_line yields for one line are in ascending
\* rule-code order, each code at most once, for every line context and
\* rule-set, also when the call raises after some of them.
C23_AscendingCodeOrder ==
    LineCallDone
    => /\ SeqRange(issues.out) \subseteq CodeSet
       /\ \A i, j \in 1..Len(issues.out) :
            i < j => CodeRank(issues.out[i]) < CodeRank(issues.out[j])

\* C23 witness: a blank line with a trailing space, after a blank line and
\* before a closing bracket, got four codes of three categories.
C23_Witness ==
    /\ LineCallDone
    /\ ~issues.raised
    /\ prev_line = <<NL>>
    /\ curr_line = <<" ", NL>>
    /\ issues.out = <<"CD0104", "CD0106", "CD0202", "CD0302">>

(***************************************************************************)
(* Properties of inspect_file (under Spec).                                *)
(***************************************************************************)
ListCall == caller = "list"
TheLines == files[1].lines
TheItems == yielded[1]

\* the diagnostics without rule code among the items
Diagnostics(items) == {k \in 1..Len(items) : Len(items[k]) = 2}

\* the items yielded for line k, in order
RECURSIVE ItemsOfLine(_, _)
ItemsOfLine(items, k) ==
    IF items = <<>> THEN <<>>
    ELSE IF Len(Head(items)) = 3 /\ Head(items)[1] = k
         THEN <<Head(items)>> \o ItemsOfLine(Tail(items), k)
         ELSE ItemsOfLine(Tail(items), k)

\* A directive line is a line with the marker directly before its line-break.
IsOffLine(line) == Contains(OffText \o <<NL>>, line)
IsOnLine(line) == Contains(OnText \o <<NL>>, line)
IsSkipLine(line) == Contains(SkipText \o <<NL>>, line)

\* line k lies between an OFF directive line (included) and the next ON
\* directive line (excluded)
SuppressedAt(lines, k) ==
    \E j \in 1..k :
        /\ IsOffLine(lines[j])
        /\ \A m \in (j + 1)..k : ~IsOnLine(lines[m])

\* the number of the last OFF directive line among the first k lines
LastOff(lines, k) ==
    CHOOSE j \in 1..k :
        IsOffLine(lines[j]) /\ \A m \in (j + 1)..k : ~IsOffLine(lines[m])

\* what inspect_line gives for line k of the file
Inspected(lines, k) ==
    inspect_line(PrevLine(lines, k), lines[k], NextLine(lines, k), rules)

\* C2: no rule-coded violation is reported for a line scanned while the
\* state is SUPPRESSED (from an OFF directive line up to, not including,
\* the next ON directive line); a line scanned outside such a stretch, in
\* particular after the ON directive, that carries no SKIP directive is
\* inspected and all its violations are reported.
C2_SuppressedLinesNotReported ==
    (ListCall /\ pc \in {"scan", "returned", "raised"} /\ files[1].readable)
    => \A k \in 1..line_number :
        IF SuppressedAt(TheLines, k)
        THEN ItemsOfLine(TheItems, k) = <<>>
        ELSE IsSkipLine(TheLines[k])
             \/ ItemsOfLine(TheItems, k) = LineItems(k, Inspected(TheLines, k).out)

\* C2 witness: OFF, a line with a trailing space, ON, a line with a trailing
\* space: only the fourth line is reported.
C2_Witness ==
    /\ ListCall
    /\ pc = "returned"
    /\ rules = DefaultRules
    /\ TheLines = <<OffLine \o <<NL>>, TrailingSpaceLine \o <<NL>>,
                    OnLine \o <<NL>>, TrailingSpaceLine \o <<NL>>>>
    /\ TheItems = << <<4, "CD0202", RuleMessage>> >>

\* C3: when inspect_file returns, it has emitted exactly one diagnostic
\* without rule code if the scan ended SUPPRESSED, as its last item, with
\* the line number of the most recent OFF directive, whatever the rule-code
\* table; it has emitted none if the scan ended ENABLED, and none is
\* emitted before the end of the file.
C3_TrailingDiagnostic ==
    ListCall =>
        IF pc = "returned" /\ SuppressedAt(TheLines, Len(TheLines))
        THEN /\ ~code_dust_enabled
             /\ Diagnostics(TheItems) = {Len(TheItems)}
             /\ TheItems[Len(TheItems)] =
                    <<LastOff(TheLines, Len(TheLines)), NotReenabledMessage>>
        ELSE /\ Diagnostics(TheItems) = {}
             /\ pc = "returned" => code_dust_enabled

\* C3 witness: a scan ended SUPPRESSED with every rule code disabled, the
\* OFF directive not being on the last line.
C3_Witness ==
    /\ ListCall
    /\ pc = "returned"
    /\ ~code_dust_enabled
    /\ DisabledCodes(rules) = CodeSet
    /\ code_dust_disabled_in_line < Len(TheLines)
    /\ Diagnostics(TheItems) /= {}

\* the numbers of the lines for which an item of any kind was yielded
ReportedLines(items) == {items[k][1] : k \in 1..Len(items)}

\* C4 as stated: a line that contains the SKIP marker text yields no item
\* for its line number, in either state, whatever else it contains.
C4_MarkerTextSkipsLine ==
    (ListCall /\ files[1].readable)
    => \A k \in 1..line_number :
        Contains(SkipText, TheLines[k]) => k \notin ReportedLines(TheItems)

\* C4 amended: a line whose SKIP marker is directly followed by the
\* line-break yields no item for its line number, in either state,
\* whatever else it contains and whatever its neighbours are.
C4_SkipDirectiveSkipsLine ==
    (ListCall /\ files[1].readable)
    => \A k \in 1..line_number :
        IsSkipLine(TheLines[k]) => k \notin ReportedLines(TheItems)

\* C4 witness: a SKIP directive line was scanned while ENABLED, and
\* inspect_line would have yielded violations for it.
C4_Witness ==
    /\ ListCall
    /\ pc = "returned"
    /\ \E k \in 1..line_number :
        /\ IsSkipLine(TheLines[k])
        /\ ~SuppressedAt(TheLines, k)
        /\ Inspected(TheLines, k).out /= <<>>

\* the state the scanner is in after the line scanned last
AfterLine(text_on, text_off) ==
    LET cl == TheLines[line_number] IN
    /\ Contains(text_on, cl)
       => code_dust_enabled /\ code_dust_disabled_in_line = 0
    /\ Contains(text_off, cl)
       => ~code_dust_enabled /\ code_dust_disabled_in_line = line_number

\* the last line of the file that contains one of the two texts contains
\* text_on
LastDirectiveIsOn(text_on, text_off) ==
    \E k \in 1..Len(TheLines) :
        /\ Contains(text_on, TheLines[k])
        /\ \A m \in k..Len(TheLines) : ~Contains(text_off, TheLines[m])
        /\ \A m \in (k + 1)..Len(TheLines) : ~Contains(text_on, TheLines[m])

DirectiveEffect(text_on, text_off) ==
    (ListCall /\ files[1].readable)
    => /\ line_number > 0 => AfterLine(text_on, text_off)
       /\ (pc = "returned" /\ LastDirectiveIsOn(text_on, text_off))
          => code_dust_enabled /\ Diagnostics(TheItems) = {}

\* C5 as stated: every line that contains the text " CodeDust: ON" moves the
\* scanner to ENABLED and clears the recorded line number, every line that
\* contains " CodeDust: OFF" moves it to SUPPRESSED and records its number;
\* a file whose last directive line contains " CodeDust: ON" ends ENABLED
\* without trailing diagnostic.
C5_MarkerTextMovesState == DirectiveEffect(OnText, OffText)

\* C5 amended: the same, for the lines in which the marker text is directly
\* followed by the line-break.
C5_DirectiveMovesState == DirectiveEffect(OnText \o <<NL>>, OffText \o <<NL>>)

\* C5 witness: an ON directive line was scanned while SUPPRESSED.
C5_Witness ==
    /\ ListCall
    /\ pc = "scan"
    /\ line_number > 1
    /\ IsOnLine(TheLines[line_number])
    /\ SuppressedAt(TheLines, line_number - 1)

(***************************************************************************)
(* Properties of the order of the items (under Spec).                      *)
(***************************************************************************)
\* C15 as stated: within one file, the items inspect_file emits
\* (rule-coded violations, then the trailing diagnostic) are strictly
\* increasing by line number.
C15_StrictlyIncreasingLines ==
    ListCall
    => \A i, j \in 1..Len(TheItems) : i < j => TheItems[i][1] < TheItems[j][1]

\* C15 amended: the items are non-decreasing by line number (the
\* violations of one line share its number), and the trailing diagnostic
\* has a greater line number than every rule-coded violation.
C15_NonDecreasingLines ==
    ListCall
    => \A i, j \in 1..Len(TheItems) :
        i < j
        => /\ TheItems[i][1] <= TheItems[j][1]
           /\ Len(TheItems[j]) = 2 => TheItems[i][1] < TheItems[j][1]

\* C15 witness: a scan has returned a violation of one line followed by two
\* violations of a later line.
C15_Witness ==
    /\ ListCall
    /\ pc = "returned"
    /\ \E i \in 1..Len(TheItems) :
        /\ i + 2 <= Len(TheItems)
        /\ TheItems[i][1] < TheItems[i + 1][1]
        /\ TheItems[i + 1][1] = TheItems[i + 2][1]

(***************************************************************************)
(* Properties of the neighbour context and of the scanner state (under     *)
(* Spec).                                                                  *)
(***************************************************************************)
\* line k of the file is handed to inspect_line
WasInspected(lines, k) == ~SuppressedAt(lines, k) /\ ~IsSkipLine(lines[k])

HasUninspectedNeighbour(lines, k) ==
    \/ k > 1 /\ ~WasInspected(lines, k - 1)
    \/ k < Len(lines) /\ ~WasInspected(lines, k + 1)

\* C21: a line that is skipped or scanned while SUPPRESSED still serves as
\* neighbour context: every inspected line at position k that has such a
\* neighbour is checked against the physical lines k - 1 and k + 1 of the
\* file (absent at the two ends), so what is yielded for it is what
\* inspect_line yields for that triple.
C21_UninspectedLinesAreContext ==
    (ListCall /\ files[1].readable)
    => \A k \in 1..line_number :
        (WasInspected(TheLines, k) /\ HasUninspectedNeighbour(TheLines, k))
        => ItemsOfLine(TheItems, k) =
            LineItems(k, inspect_line(IF k = 1 THEN None ELSE TheLines[k - 1],
                                      TheLines[k],
                                      IF k = Len(TheLines) THEN None
                                      ELSE TheLines[k + 1],
                                      rules).out)

\* C21 witness: the second line follows a line with a SKIP directive and
\* got violations that it would not get as the first line of a file.
C21_Witness ==
    /\ ListCall
    /\ pc = "returned"
    /\ Len(TheLines) >= 2
    /\ IsSkipLine(TheLines[1])
    /\ WasInspected(TheLines, 2)
    /\ ItemsOfLine(TheItems, 2) /= <<>>
    /\ ItemsOfLine(TheItems, 2) /=
        LineItems(2, inspect_line(None, TheLines[2], NextLine(TheLines, 2), rules).out)

\* the step scans one more line of the file
ScansLine == ListCall /\ pc = "scan" /\ line_number' = line_number + 1

\* C24: the scanner state is changed only by OFF and ON directive lines:
\* scanning a line that carries neither directive (an ordinary line or a
\* SKIP line) leaves the suppression flag and the recorded line number
\* unchanged, in either state.
C24_OnlyDirectivesChangeState ==
    [][(/\ ScansLine
        /\ ~IsOffLine(TheLines[line_number'])
        /\ ~IsOnLine(TheLines[line_number']))
       => /\ code_dust_enabled' = code_dust_enabled
          /\ code_dust_disabled_in_line' = code_dust_disabled_in_line]_vars

\* C24 witness: a line with a SKIP directive was scanned while SUPPRESSED,
\* and the OFF line recorded is an earlier one.
C24_Witness ==
    /\ ListCall
    /\ pc = "scan"
    /\ line_number >= 2
    /\ IsSkipLine(TheLines[line_number])
    /\ ~code_dust_enabled
    /\ code_dust_disabled_in_line = line_number - 1

\* C25: at every point of a file scan the recorded suppression line number
\* is 0 exactly when the state is ENABLED; when the state is SUPPRESSED it
\* lies between 1 and the number of the line scanned last and is the
\* number of a line that carries an OFF directive.
C25_RecordedLineMatchesState ==
    (ListCall /\ files[1].readable)
    => /\ code_dust_enabled <=> code_dust_disabled_in_line = 0
       /\ ~code_dust_enabled
          => /\ code_dust_disabled_in_line \in 1..line_number
             /\ IsOffLine(TheLines[code_dust_disabled_in_line])

\* C25 witness: after OFF, ON, OFF and one more line the state is
\* SUPPRESSED and the line recorded is the third.
C25_Witness ==
    /\ ListCall
    /\ pc = "scan"
    /\ line_number = 4
    /\ IsOffLine(TheLines[1])
    /\ IsOnLine(TheLines[2])
    /\ ~code_dust_enabled
    /\ code_dust_disabled_in_line = 3

\* the line carries the SKIP marker text, followed by the line-break or not
HasSkipMarker(line) == Contains(SkipText, line)

\* Directive lines are treated asymmetrically: nothing is yielded for a line
\* with an OFF directive, while a line with an ON directive is inspected
\* and yields what inspect_line finds for it, unless it is one of the
\* lines "skipped" tells of.
DirectiveLinesAsymmetric(skipped(_)) ==
    (ListCall /\ files[1].readable)
    => \A k \in 1..line_number :
        /\ IsOffLine(TheLines[k]) => ItemsOfLine(TheItems, k) = <<>>
        /\ IsOnLine(TheLines[k])
           => ItemsOfLine(TheItems, k) =
                IF skipped(TheLines[k]) THEN <<>>
                ELSE LineItems(k, Inspected(TheLines, k).out)

NeverSkipped(line) == FALSE

\* C26 as stated: the line carrying an OFF directive is itself never
\* inspected, while the line carrying an ON directive is itself inspected
\* and can yield violations, unless it also carries a SKIP marker.
C26_OnLineInspectedUnlessSkipMarker == DirectiveLinesAsymmetric(HasSkipMarker)

\* C26 amended: the line carrying an OFF directive is never inspected,
\* while the line carrying an ON directive is always inspected, also when
\* it carries the SKIP marker text (as the ON marker stands directly before
\* the line-break, the SKIP marker cannot).
C26_OnLineAlwaysInspected == DirectiveLinesAsymmetric(NeverSkipped)

\* C26 witness: a line with the SKIP marker and then the ON directive was
\* scanned while SUPPRESSED, and violations were yielded for it.
C26_Witness ==
    /\ ListCall
    /\ pc = "scan"
    /\ line_number >= 2
    /\ IsOnLine(TheLines[line_number])
    /\ HasSkipMarker(TheLines[line_number])
    /\ SuppressedAt(TheLines, line_number - 1)
    /\ ItemsOfLine(TheItems, line_number) /= <<>>

(***************************************************************************)
(* Properties of two scans in succession (under SpecTwice).                *)
(***************************************************************************)
TwoCalls == caller = "twice"
CallEnded == pc \in {"returned", "raised"}

\* C16: scanning the same file with the same rule-set twice in succession
\* yields the same items in the same order both times: every scan starts
\* ENABLED with the recorded line number 0, so a scan that ended SUPPRESSED
\* suppresses nothing in the next one.
C16_SecondScanYieldsTheSame ==
    TwoCalls
    => /\ (pc = "scan" /\ line_number = 0)
          => (code_dust_enabled /\ code_dust_disabled_in_line = 0)
       /\ (CallEnded /\ Len(files) = 2) => yielded[2] = yielded[1]

\* C16 witness: the first scan reported a violation and ended SUPPRESSED
\* with the trailing diagnostic, and the second scan has returned.
C16_Witness ==
    /\ TwoCalls
    /\ pc = "returned"
    /\ Len(files) = 2
    /\ ~code_dust_enabled
    /\ Len(yielded[1]) >= 2
    /\ Len(yielded[1][1]) = 3
    /\ Len(yielded[1][Len(yielded[1])]) = 2

(***************************************************************************)
(* Properties of two interleaved scans (under SpecPar).                    *)
(***************************************************************************)
Interleaved == caller = "par"

\* C20: for any interleaving of the steps of two inspect_file scans over
\* different files, each scan yields exactly the items it yields when run
\* alone: at every point, what a scan has yielded so far and will yield
\* when it is run on to its end is what the scan of its file yields
\* uninterrupted, so neither scan's suppression state is read or written
\* by the other.
C20_InterleavedScansAreIndependent ==
    Interleaved
    => \A i \in 1..Len(scans) :
        LET alone == RunAlone(NewScan(scans[i].file), rules)
            onward == RunAlone(scans[i], rules)
        IN  /\ onward.items = alone.items
            /\ onward.pc = alone.pc
            /\ ScanEnded(scans[i]) => scans[i].items = alone.items

\* C20 witness: the first scan is SUPPRESSED in the middle of its file
\* while the second, ENABLED, has yielded a violation and has not returned.
C20_Witness ==
    /\ Interleaved
    /\ scans[1].pc = "scan"
    /\ ~scans[1].state.code_dust_enabled
    /\ scans[1].state.line_number < Len(scans[1].file.lines)
    /\ scans[2].pc = "scan"
    /\ scans[2].state.code_dust_enabled
    /\ scans[2].items /= <<>>

(***************************************************************************)
(* Properties of a run of __main__ (under SpecMain).                       *)
(***************************************************************************)
MainRun == caller = "main"
ArgsValid == args.paths_are_dirs /\ args.config_found
ProcessEnded == exit_code /= <<>>

RECURSIVE TotalLen(_)
TotalLen(seqs) == IF seqs = <<>> THEN 0 ELSE Len(Head(seqs)) + TotalLen(Tail(seqs))

\* the number of items the file scans have yielded so far
TotalYielded == TotalLen(yielded)

IssuesPrinted == {k \in 1..Len(stdout) : stdout[k][1] = "issue"}

\* C8: a read failure affects only the file that cannot be opened: when the
\* process has ended, nothing was reported for an unreadable file and every
\* other file found under the paths, also those found after it, was scanned.
C8_ReadFailureIsLocal ==
    (MainRun /\ ProcessEnded /\ ArgsValid)
    => \A f \in 1..Len(files) :
        ~files[f].readable
        => /\ yielded[f] = <<>>
           /\ \A g \in 1..Len(tree) :
                (g /= f /\ tree[g].readable) => g <= Len(files)

\* C9: every item a file scan has yielded, the trailing "not re-enabled"
\* diagnostic included, has been printed and counted, and a run that
\* reaches its end prints the summary line with the number of items yielded
\* across all files.
C9_EveryViolationPrintedAndCounted ==
    MainRun
    => /\ issue_count = TotalYielded
       /\ Cardinality(IssuesPrinted) = TotalYielded
       /\ \A f \in 1..Len(yielded) : \A k \in 1..Len(yielded[f]) :
            \E n \in IssuesPrinted :
                stdout[n][2] = f /\ stdout[n][3] = yielded[f][k][1]
       /\ (pc = "exited" /\ ArgsValid)
          => stdout[Len(stdout)] = <<"summary", TotalYielded>>

\* C10: the exit code is 1 if at least one violation (rule-coded or the
\* trailing diagnostic) was found in any scanned file, and 0 if none was.
C10_ExitCodeTellsViolations ==
    (MainRun /\ ProcessEnded)
    => exit_code = <<IF TotalYielded > 0 THEN 1 ELSE 0>>


\* what the run has printed about violations: "issue" lines and the summary
ReportLines == {k \in 1..Len(stdout) : stdout[k][1] \in {"issue", "summary"}}

\* C11: configuration errors are detected before scanning: when a path is
\* not a directory, or a config file is given and does not exist, the
\* process terminates in validate_args, before load_rules, get_files or
\* inspect_file runs: no file is opened, nothing is yielded, and neither a
\* violation line nor the summary line is printed.
C11_ConfigErrorsEndRunBeforeScan ==
    (MainRun /\ ~ArgsValid)
    => /\ pc \in {"validate_args", "exited"}
       /\ files = <<>>
       /\ yielded = <<>>
       /\ issue_count = 0
       /\ ReportLines = {}

\* C11 witness: a run over a tree with files to scan has ended because the
\* config file given does not exist.
C11_Witness ==
    /\ MainRun
    /\ pc = "exited"
    /\ args.paths_are_dirs
    /\ ~args.config_found
    /\ tree /= <<>>
    /\ stdout = << <<"not found">> >>

(***************************************************************************)
(* Properties of load_rules (under SpecRules).                             *)
(***************************************************************************)
RulesCall == caller = "load"
Loaded == RulesCall /\ pc = "loaded"
Extensions == {extensions[k] : k \in 1..Len(extensions)}

\* the values the file gives, in section name, to the key that reads as
\* "key" in lower case
Written(name, key) ==
    IF config_file.given /\ name \in DOMAIN config_file.sections
    THEN {config_file.sections[name][written] :
            written \in {w \in DOMAIN config_file.sections[name] : lower(w) = key}}
    ELSE {}

Configured(name, key) == Written(name, key) /= {}
TheValue(name, key) == StrV(CHOOSE value \in Written(name, key) : TRUE)

\* the keys, in lower case, that section name of the file holds
KeysOf(name) ==
    IF config_file.given /\ name \in DOMAIN config_file.sections
    THEN {lower(written) : written \in DOMAIN config_file.sections[name]}
    ELSE {}

SettingKeys ==
    {IndentSizeKey, MaxLineLengthKey, SectionHeaderLengthKey, LineCommentKey}
NumericKeys == {IndentSizeKey, MaxLineLengthKey, SectionHeaderLengthKey}

CompiledIn(key) ==
    CASE key = IndentSizeKey -> IntV(DefaultIndentSize)
      [] key = MaxLineLengthKey -> IntV(DefaultMaxLineLength)
      [] key = SectionHeaderLengthKey -> IntV(DefaultSectionHeaderLength)
      [] key = LineCommentKey -> NoneV

\* the extension's section wins over [default]
Layered(ext, key) ==
    IF Configured(ext, key) THEN TheValue(ext, key)
    ELSE TheValue(DefaultSection, key)

\* C12: load_rules layers the rule-sets so that a later layer wins: for
\* every extension and every setting, the resolved value is the value of
\* the extension's section if that section defines the key, else the value
\* of the [default] section if it defines the key, else the compiled-in
\* default (4, 120, 100, no line comment); a value that reads as an integer
\* is resolved to that integer.  The sections of the other extensions play
\* no part in it.
C12_LaterLayerWins ==
    Loaded
    => /\ DOMAIN rules_per_extension = Extensions
       /\ \A ext \in Extensions : \A key \in SettingKeys :
            rules_per_extension[ext][key] =
                IF Configured(ext, key) \/ Configured(DefaultSection, key)
                THEN BestEffortInt(Layered(ext, key))
                ELSE CompiledIn(key)

\* C12 witness: [default] and [py] both set indent_size, [js] does not, and
\* the two extensions got different values.
C12_Witness ==
    /\ Loaded
    /\ extensions = <<PyExt, JsExt>>
    /\ Configured(DefaultSection, IndentSizeKey)
    /\ Configured(PyExt, IndentSizeKey)
    /\ ~Configured(JsExt, IndentSizeKey)
    /\ rules_per_extension[PyExt][IndentSizeKey] = IntV(0)
    /\ rules_per_extension[JsExt][IndentSizeKey] = IntV(2)

\* "CD" followed by four digits, in any letter case
IsRuleCode(key) ==
    /\ Len(key) = 6
    /\ key[1] \in {"c", "C"}
    /\ key[2] \in {"d", "D"}
    /\ \A k \in 3..6 : key[k] \in Digits

\* C13: every configured key that is a rule code ends up in the rule-set
\* only under its upper-case code, with a boolean value that is false
\* exactly when the configured value equals "disable" ignoring case; a rule
\* code configured nowhere is enabled for inspect_line.
C13_RuleCodesBecomeBooleans ==
    Loaded
    => \A ext \in Extensions :
        LET dict == rules_per_extension[ext] IN
        /\ \A key \in {k \in KeysOf(ext) \cup KeysOf(DefaultSection) : IsRuleCode(k)} :
            /\ upper(key) \in DOMAIN dict
            /\ \A other \in DOMAIN dict : upper(other) = upper(key) => other = upper(key)
            /\ dict[upper(key)] =
                BoolV(upper(Layered(ext, key).s) /= upper(DisableWord))
        /\ \A code \in CodeSet :
            (~Configured(ext, lower(CodeKeys[code]))
             /\ ~Configured(DefaultSection, lower(CodeKeys[code])))
            => RuleEnabled(RuleSet(dict), code)
        /\ \A code \in CodeSet :
            RuleEnabled(RuleSet(dict), code)
            <=> (CodeKeys[code] \notin DOMAIN dict \/ dict[CodeKeys[code]] = BoolV(TRUE))

\* C13 witness: [default] disables a code with the value "Disable" under a
\* key written in upper case, and [py] sets it to another value: the code
\* is disabled for js and enabled for py.
C13_Witness ==
    /\ Loaded
    /\ extensions = <<PyExt, JsExt>>
    /\ config_file.given
    /\ DefaultSection \in DOMAIN config_file.sections
    /\ CodeKeys["CD0202"] \in DOMAIN config_file.sections[DefaultSection]
    /\ config_file.sections[DefaultSection][CodeKeys["CD0202"]] = <<"D", "i", "s", "a", "b", "l", "e">>
    /\ Configured(PyExt, lower(CodeKeys["CD0202"]))
    /\ rules_per_extension[JsExt][CodeKeys["CD0202"]] = BoolV(FALSE)
    /\ rules_per_extension[PyExt][CodeKeys["CD0202"]] = BoolV(TRUE)

\* C14: in every rule-set that load_rules returns, indent_size,
\* max_line_length and section_header_length are positive integers, never
\* zero, negative or a string that is not an integer.
C14_NumericSettingsPositive ==
    Loaded
    => \A ext \in Extensions : \A key \in NumericKeys :
        /\ rules_per_extension[ext][key].t = "int"
        /\ rules_per_extension[ext][key].i > 0

=============================================================================
